---- MODULE Spec2Model ----
(***************************************************************************)
(* Model of allennlp/steps/dataloader.py: the batch-producing strategies   *)
(* (BatchSizeDataLoader, SamplerDataLoader), the two epoch-length wrappers *)
(* (BatchesPerEpochDataLoader, MaxBatchesDataLoader) and the Python        *)
(* generators their __iter__ methods create.                               *)
(*                                                                         *)
(* One state of the model is the heap of a single-threaded Python program: *)
(* the instance list, the loader objects constructed so far, the generator *)
(* objects the caller obtained with iter(loader), and what the caller has  *)
(* observed (batches delivered, values returned).                          *)
(***************************************************************************)
EXTENDS Integers, Sequences, FiniteSets, TLC

VARIABLES
    instances,  \* the shared instance sequence (BatchSizeDataLoader.instances)
    base,       \* the BatchSizeDataLoader object
    other,      \* some other TangoDataLoader whose epoch length is not declared
    sampler,    \* the SamplerDataLoader object, with its batch sampler
    bpe,        \* the BatchesPerEpochDataLoader object (holds the cursor .iter)
    mx,         \* the MaxBatchesDataLoader object
    gens,       \* generator objects the caller got from iter(loader), by epoch
    active,     \* the epoch whose next() call has not returned yet (0: none)
    delivered,  \* every batch handed to the caller, in order, with its epoch
    pulled,     \* per epoch: batches its generator obtained from its inner iterator
    declared,   \* the value the last num_batches_per_epoch() call returned, and when
                \* it was made: with a generator suspended (mid), after how many
                \* restarts
    restarts    \* for each iter(self.inner) the except branch made: the number of
                \* batches delivered before it (a log, kept up to MaxRestarts)

vars == <<instances, base, other, sampler, bpe, mx, gens, active, delivered, pulled,
          declared, restarts>>

-----------------------------------------------------------------------------
(* Bounds of the model. *)

MaxInstances == 2
MaxPlainInstances == 3
MaxBatchSize == 2
MaxTarget == 2
MaxCap == 2
MaxEpochs == 2
MaxOtherLen == 2
MaxIndices == 2
MaxRestarts == 3

-----------------------------------------------------------------------------
(* Values. *)

Min(a, b) == IF a <= b THEN a ELSE b

\* What a call gave its caller: a value (val = {v}), Python's None (val = {}),
\* or an exception (exc names it).
Returned(v) == [exc |-> "", val |-> {v}]

ReturnedNone == [exc |-> "", val |-> {}]

Raised(e) == [exc |-> e, val |-> {}]

\* The external collate function: one batch payload built from a list of instances.
allennlp_collate(batch) == [examples |-> batch]

NoBatch == [examples |-> <<0>>]

Range(s) == {s[i] : i \in 1..Len(s)}

\* All orders random.shuffle can leave a list in.
Shuffles(s) ==
    {[i \in 1..Len(s) |-> s[p[i]]] :
        p \in {q \in [1..Len(s) -> 1..Len(s)] : \A i, j \in 1..Len(s) : q[i] = q[j] => i = j}}

\* more_itertools.take(n, iterator): the next n items (fewer at the end).
take(n, s, pos) == SubSeq(s, pos + 1, Min(pos + n, Len(s)))

-----------------------------------------------------------------------------
(* Generator objects.  st is the generator's state: "new" (created, body   *)
(* not entered), "run" (suspended at its yield), "loop" (executing: its    *)
(* next() has not returned), "done" (returned), "raised" (ended by an      *)
(* exception that went to the caller).                                     *)

Gen(kind) == [kind |-> kind, st |-> "new", items |-> <<>>, pos |-> 0, by |-> 0]

NoGen == [kind |-> "none", st |-> "done", items |-> <<>>, pos |-> 0, by |-> 0]

\* What one attempt to advance a generator gives: a batch ("yield"), the end of
\* the sequence ("stop"), an exception ("raise"), or neither yet ("restart": the
\* cursor was replaced and the loop goes round again).  g is the generator
\* afterwards, cur the cursor of the BatchesPerEpochDataLoader afterwards, inst the shared instance list
\* afterwards, n the number of batches taken from the generator's inner iterator.
Result(res, val, g, cur, inst, n) ==
    [res |-> res, val |-> val, g |-> g, cur |-> cur, inst |-> inst, n |-> n]

-----------------------------------------------------------------------------
(* BatchSizeDataLoader *)

\* math.floor(len(instances) / batch_size) and math.ceil of the same quotient.
floor(n, d) == n \div d

\* A quotient that is truncated, not rounded up.
ceil_truncated(n, d) == n \div d

ceil(n, d) == IF n % d = 0 THEN n \div d ELSE (n \div d) + 1

BatchSize_num_batches_per_epoch ==
    IF base.batch_size = 0
    THEN Raised("ZeroDivisionError")
    ELSE IF base.drop_last
         THEN Returned(floor(Len(instances), base.batch_size))
         ELSE Returned(ceil(Len(instances), base.batch_size))

\* A generator that draws its list with replacement instead of shuffling it.
BatchSize_enter_sampled(g, perm) ==
    [g    |-> [g EXCEPT !.st = "run",
                        !.items = IF base.shuffle
                                  THEN [i \in 1..Len(perm) |-> perm[1]]
                                  ELSE <<>>],
     inst |-> instances]

\* A generator that shuffles self.instances itself.
BatchSize_enter_in_place(g, perm) ==
    [g    |-> [g EXCEPT !.st = "run", !.items = IF base.shuffle THEN perm ELSE <<>>],
     inst |-> IF base.shuffle THEN perm ELSE instances]

\* The first lines of __iter__, run when the generator is first advanced: the
\* list that is chunked is a shuffled private copy, or self.instances itself.
\* perm is the order random.shuffle produces.
BatchSize_enter(g, perm) ==
    [g    |-> [g EXCEPT !.st = "run", !.items = IF base.shuffle THEN perm ELSE <<>>],
     inst |-> instances]

\* A generator that reads the private copy whether it made one or not.
BatchSize_list_copy(g, inst) == g.items

\* The list a running generator reads its chunks from.
BatchSize_list(g, inst) == IF base.shuffle THEN g.items ELSE inst

\* A test that forgets drop_last.
BatchSize_keeps_all(batch) == TRUE

\* Whether __iter__ yields a chunk that more_itertools.chunked produced.
BatchSize_keeps(batch) == ~base.drop_last \/ Len(batch) >= base.batch_size

\* The for loop over more_itertools.chunked, from the generator's position to
\* its next yield or to its end.
RECURSIVE BatchSize_loop(_, _)
BatchSize_loop(g, inst) ==
    LET batch == take(base.batch_size, BatchSize_list(g, inst), g.pos)
        g2    == [g EXCEPT !.pos = g.pos + Len(batch)]
    IN  IF batch = <<>>
        THEN Result("stop", NoBatch, [g EXCEPT !.st = "done"], bpe.iter, inst, 0)
        ELSE IF BatchSize_keeps(batch)
             THEN Result("yield", allennlp_collate(batch), g2, bpe.iter, inst, 0)
             ELSE BatchSize_loop(g2, inst)

\* next() on a generator of BatchSizeDataLoader.__iter__.
BatchSize_next(g, perm) ==
    IF g.st = "done"
    THEN Result("stop", NoBatch, g, bpe.iter, instances, 0)
    ELSE LET e == IF g.st = "new" THEN BatchSize_enter(g, perm)
                  ELSE [g |-> g, inst |-> instances]
         IN  BatchSize_loop(e.g, e.inst)

-----------------------------------------------------------------------------
(* Another TangoDataLoader, of which only the interface is known: its       *)
(* num_batches_per_epoch() returns None and each epoch is other.batches.    *)

Other_num_batches_per_epoch == ReturnedNone

Other_next(g) ==
    IF g.st = "done" \/ g.pos >= Len(other.batches)
    THEN Result("stop", NoBatch, [g EXCEPT !.st = "done"], bpe.iter, instances, 0)
    ELSE Result("yield", other.batches[g.pos + 1],
                [g EXCEPT !.st = "run", !.pos = g.pos + 1], bpe.iter, instances, 0)

-----------------------------------------------------------------------------
(* SamplerDataLoader.  The batch sampler is external: sampler.groups is the *)
(* sequence of index lists its get_batch_indices() yields, sampler.num what *)
(* its get_num_batches() returns.                                           *)

Sampler_num_batches_per_epoch == Returned(sampler.num)

\* An index test that takes no negative index.
Sampler_in_range_nonneg(i, n) == 0 <= i /\ i < n

\* Whether self.instances[i] finds an element in a list of n: Python counts a
\* negative index from the end of the list.
Sampler_in_range(i, n) == -n <= i /\ i < n

\* self.instances[i], for an index in range.
Sampler_getitem(inst, i) == IF i >= 0 THEN inst[i + 1] ELSE inst[Len(inst) + i + 1]

\* A list built from the last index to the first.
Sampler_gather_reversed(inst, batch_indices) ==
    [j \in 1..Len(batch_indices) |->
        Sampler_getitem(inst, batch_indices[Len(batch_indices) + 1 - j])]

\* [self.instances[i] for i in batch_indices]
Sampler_gather(inst, batch_indices) ==
    [j \in 1..Len(batch_indices) |-> Sampler_getitem(inst, batch_indices[j])]

\* next() on a generator of SamplerDataLoader.__iter__: the next index list of the
\* sampler, and the batch of the instances at its indices; an index that is not in
\* range raises IndexError out of the generator.
Sampler_next(g) ==
    IF g.st \in {"done", "raised"}
    THEN Result("stop", NoBatch, g, bpe.iter, instances, 0)
    ELSE IF g.pos >= Len(sampler.groups)
         THEN Result("stop", NoBatch, [g EXCEPT !.st = "done"], bpe.iter, instances, 0)
         ELSE LET batch_indices == sampler.groups[g.pos + 1]
              IN  IF \A j \in 1..Len(batch_indices) :
                         Sampler_in_range(batch_indices[j], Len(instances))
                  THEN Result("yield",
                              allennlp_collate(Sampler_gather(instances, batch_indices)),
                              [g EXCEPT !.st = "run", !.pos = g.pos + 1],
                              bpe.iter, instances, 0)
                  ELSE Result("raise", NoBatch,
                              [g EXCEPT !.st = "raised", !.pos = g.pos + 1],
                              bpe.iter, instances, 0)

-----------------------------------------------------------------------------
(* BatchesPerEpochDataLoader *)

BatchesPerEpoch_num_batches_per_epoch == Returned(bpe.batches_per_epoch)

\* A count obtained by iterating a new epoch of the inner loader to its end.
BatchesPerEpoch_after_counting == [bpe EXCEPT !.iter = [Gen("bs") EXCEPT !.st = "done"]]

\* The loader object after num_batches_per_epoch(): the method assigns nothing.
BatchesPerEpoch_after_num_batches_per_epoch == bpe

\* The except branch of __iter__: self.iter = iter(self.inner).
BatchesPerEpoch_restart(old) == Gen("bs")

\* A generator that starts by rewinding the cursor.
BatchesPerEpoch_cursor_rewound(g) == IF g.st = "new" THEN Gen("bs") ELSE bpe.iter

\* self.iter, as the generator g reads it.
BatchesPerEpoch_cursor(g) == bpe.iter

\* A loop that gives up when the cursor is exhausted.
BatchesPerEpoch_round_once(g, by, perm) ==
    IF by < bpe.batches_per_epoch
    THEN LET r == BatchSize_next(BatchesPerEpoch_cursor(g), perm)
         IN  IF r.res = "yield"
             THEN Result("yield", r.val, [g EXCEPT !.st = "run", !.by = by], r.g, r.inst, 1)
             ELSE Result("stop", NoBatch, [g EXCEPT !.st = "done", !.by = by],
                         r.g, r.inst, 0)
    ELSE Result("stop", NoBatch, [g EXCEPT !.st = "done", !.by = by], bpe.iter, instances, 0)

\* A loop that tests "batches_yielded <= self.batches_per_epoch".
BatchesPerEpoch_round_inclusive(g, by, perm) ==
    IF by <= bpe.batches_per_epoch
    THEN LET r == BatchSize_next(BatchesPerEpoch_cursor(g), perm)
         IN  IF r.res = "yield"
             THEN Result("yield", r.val, [g EXCEPT !.st = "run", !.by = by], r.g, r.inst, 1)
             ELSE Result("restart", NoBatch, [g EXCEPT !.st = "loop", !.by = by],
                         BatchesPerEpoch_restart(r.g), r.inst, 0)
    ELSE Result("stop", NoBatch, [g EXCEPT !.st = "done", !.by = by], bpe.iter, instances, 0)

\* One round of the while loop of __iter__; by is batches_yielded.
BatchesPerEpoch_round(g, by, perm) ==
    IF by < bpe.batches_per_epoch
    THEN LET r == BatchSize_next(BatchesPerEpoch_cursor(g), perm)
         IN  IF r.res = "yield"
             THEN Result("yield", r.val, [g EXCEPT !.st = "run", !.by = by], r.g, r.inst, 1)
             ELSE Result("restart", NoBatch, [g EXCEPT !.st = "loop", !.by = by],
                         BatchesPerEpoch_restart(r.g), r.inst, 0)
    ELSE Result("stop", NoBatch, [g EXCEPT !.st = "done", !.by = by], bpe.iter, instances, 0)

\* next() on a generator of BatchesPerEpochDataLoader.__iter__: a generator
\* suspended at its yield first counts the batch it yielded.
BatchesPerEpoch_next(g, perm) ==
    IF g.st = "done"
    THEN Result("stop", NoBatch, g, bpe.iter, instances, 0)
    ELSE BatchesPerEpoch_round(g, IF g.st = "run" THEN g.by + 1 ELSE g.by, perm)

-----------------------------------------------------------------------------
(* MaxBatchesDataLoader *)

\* self.inner.num_batches_per_epoch(), for the loader that self.inner is.
Inner_num_batches_per_epoch ==
    CASE mx.inner = "bs"    -> BatchSize_num_batches_per_epoch
      [] mx.inner = "bpe"   -> BatchesPerEpoch_num_batches_per_epoch
      [] mx.inner = "other" -> Other_num_batches_per_epoch

\* A count that ignores the inner loader's.
MaxBatches_min_cap(batches) == mx.max_batches_per_epoch

\* The else branch of num_batches_per_epoch.
MaxBatches_min(batches) == Min(mx.max_batches_per_epoch, batches)

MaxBatches_num_batches_per_epoch ==
    LET batches == Inner_num_batches_per_epoch
    IN  IF batches.exc # ""
        THEN batches
        ELSE IF batches.val = {}
             THEN ReturnedNone
             ELSE Returned(MaxBatches_min(CHOOSE b \in batches.val : TRUE))

\* next() on the iterator iter(self.inner) that the generator holds.
Inner_next(g, perm) ==
    CASE g.kind = "bs"    -> BatchSize_next(g, perm)
      [] g.kind = "bpe"   -> BatchesPerEpoch_next(g, perm)
      [] g.kind = "other" -> Other_next(g)
      [] g.kind = "sampler" -> Sampler_next(g)

\* The test "i > self.max_batches_per_epoch".
MaxBatches_over_strict(i) == i > mx.max_batches_per_epoch

\* The test "i >= self.max_batches_per_epoch" of __iter__.
MaxBatches_over(i) == i >= mx.max_batches_per_epoch

\* next() on a generator of MaxBatchesDataLoader.__iter__.  ep.i is the index
\* enumerate gives the next item, ep.g the iterator iter(self.inner).
MaxBatches_next(ep, perm) ==
    IF ep.st = "done"
    THEN Result("stop", NoBatch, ep, bpe.iter, instances, 0)
    ELSE LET g == IF ep.st = "new" THEN Gen(mx.inner) ELSE ep.g
             r == Inner_next(g, perm)
         IN  CASE r.res = "restart" ->
                    Result("restart", NoBatch, [ep EXCEPT !.st = "loop", !.g = r.g],
                           r.cur, r.inst, 0)
               [] r.res = "stop" ->
                    Result("stop", NoBatch, [ep EXCEPT !.st = "done", !.g = r.g],
                           r.cur, r.inst, 0)
               [] r.res = "yield" ->
                    IF MaxBatches_over(ep.i)
                    THEN Result("stop", NoBatch,
                                [ep EXCEPT !.st = "done", !.g = r.g, !.i = ep.i + 1],
                                r.cur, r.inst, 1)
                    ELSE Result("yield", r.val,
                                [ep EXCEPT !.st = "run", !.g = r.g, !.i = ep.i + 1],
                                r.cur, r.inst, 1)

-----------------------------------------------------------------------------
(* The caller's generators.  An epoch is one generator the caller obtained  *)
(* with iter(loader): of a MaxBatchesDataLoader (st, i and the inner         *)
(* iterator g), or of another loader (the generator g itself; st copies      *)
(* g.st).                                                                    *)

Epoch(loader) ==
    [loader |-> loader, st |-> "new", i |-> 0,
     g |-> IF loader = "max" THEN NoGen ELSE Gen(loader)]

\* next() on the caller's generator ep.
Epoch_next(ep, perm) ==
    IF ep.loader = "max"
    THEN MaxBatches_next(ep, perm)
    ELSE LET r == Inner_next(ep.g, perm)
         IN  Result(r.res, r.val, [ep EXCEPT !.st = r.g.st, !.g = r.g], r.cur, r.inst, r.n)

Made(loader) ==
    CASE loader = "bs"    -> base.made
      [] loader = "bpe"   -> bpe.made
      [] loader = "max"   -> mx.made
      [] loader = "other" -> other.made
      [] loader = "sampler" -> sampler.made

Loaders == {"bs", "other", "bpe", "max"}

-----------------------------------------------------------------------------
(* Initial states: an instance list and no loader yet. *)

NoBase == [made |-> FALSE, batch_size |-> 0, drop_last |-> FALSE, shuffle |-> FALSE]

NoOther == [made |-> FALSE, batches |-> <<>>]

NoSampler == [made |-> FALSE, groups |-> <<>>, num |-> 0]

NoBpe == [made |-> FALSE, batches_per_epoch |-> 0, iter |-> NoGen]

NoMax == [made |-> FALSE, max_batches_per_epoch |-> 0, inner |-> "none"]

NoCall == [who |-> "none", ret |-> ReturnedNone, mid |-> FALSE, after |-> 0]

\* The instance lists <<1>>, <<1, 2>>, ... of at most n distinct instances.
InstanceLists(n) == {[i \in 1..k |-> i] : k \in 0..n}

InitWith(lists) ==
    /\ instances \in lists
    /\ base = NoBase
    /\ other = NoOther
    /\ sampler = NoSampler
    /\ bpe = NoBpe
    /\ mx = NoMax
    /\ gens = <<>>
    /\ active = 0
    /\ delivered = <<>>
    /\ pulled = <<>>
    /\ declared = NoCall
    /\ restarts = <<>>

\* Lists short enough for every order of theirs to be tried.
Init == InitWith(InstanceLists(MaxInstances))

\* Longer lists, for loaders that do not shuffle.
InitPlain == InitWith(InstanceLists(MaxPlainInstances))

-----------------------------------------------------------------------------
(* Construction. *)

\* BatchSizeDataLoader(instances, batch_size, drop_last, shuffle)
ConstructBatchSize(sizes, shuffles) ==
    /\ ~base.made /\ ~other.made
    /\ \E b \in sizes, d \in BOOLEAN, s \in shuffles :
          base' = [made |-> TRUE, batch_size |-> b, drop_last |-> d, shuffle |-> s]
    /\ UNCHANGED <<instances, other, sampler, bpe, mx, gens, active, delivered, pulled,
                   declared, restarts>>

\* A loader of another class, with k batches per epoch.  (The program builds one
\* chain of loaders: over a BatchSizeDataLoader or over this one.)
ConstructOther ==
    /\ ~other.made /\ ~base.made
    /\ \E k \in 0..MaxOtherLen :
          other' = [made |-> TRUE,
                    batches |-> [j \in 1..k |-> allennlp_collate(<<100 + j>>)]]
    /\ UNCHANGED <<instances, base, sampler, bpe, mx, gens, active, delivered, pulled,
                   declared, restarts>>

\* The indices a sampler may name for a list of n instances: those of the list,
\* -1, and the first index beyond either end.
Indices(n) == (-1..n) \cup {-(n + 1)}

\* The ways of cutting a list of k indices into groups: the position each group
\* ends at.
Cuts(k) ==
    {ends \in UNION {[1..m -> 0..k] : m \in 0..MaxIndices} :
        /\ k > 0 => ends # <<>>
        /\ ends # <<>> => ends[Len(ends)] = k
        /\ \A j \in 1..(Len(ends) - 1) : ends[j] <= ends[j + 1]}

\* The index lists a sampler yields for a list of n instances: at most MaxIndices
\* groups, empty ones among them, of at most MaxIndices indices together.
IndexGroups(n) ==
    UNION {{[j \in 1..Len(ends) |->
                SubSeq(flat, (IF j = 1 THEN 0 ELSE ends[j - 1]) + 1, ends[j])] :
              ends \in Cuts(Len(flat))} :
           flat \in UNION {[1..k -> Indices(n)] : k \in 0..MaxIndices}}

\* SamplerDataLoader(instances, batch_sampler): the sampler reports the number of
\* groups it yields, or one more.
ConstructSampler ==
    /\ ~sampler.made
    /\ \E groups \in IndexGroups(Len(instances)), extra \in {0, 1} :
          sampler' = [made |-> TRUE, groups |-> groups, num |-> Len(groups) + extra]
    /\ UNCHANGED <<instances, base, other, bpe, mx, gens, active, delivered, pulled,
                   declared, restarts>>

\* BatchesPerEpochDataLoader(inner, batches_per_epoch), inner the BatchSizeDataLoader
ConstructBatchesPerEpoch(targets) ==
    /\ ~bpe.made
    /\ base.made
    /\ \E t \in targets :
          bpe' = [made |-> TRUE, batches_per_epoch |-> t, iter |-> Gen("bs")]
    /\ UNCHANGED <<instances, base, other, sampler, mx, gens, active, delivered, pulled,
                   declared, restarts>>

\* MaxBatchesDataLoader(inner, max_batches_per_epoch)
ConstructMaxBatches(caps, inners) ==
    /\ ~mx.made
    /\ \E c \in caps, l \in inners :
          /\ Made(l)
          /\ mx' = [made |-> TRUE, max_batches_per_epoch |-> c, inner |-> l]
    /\ UNCHANGED <<instances, base, other, sampler, bpe, gens, active, delivered, pulled,
                   declared, restarts>>

-----------------------------------------------------------------------------
(* The caller. *)

\* iter(loader): a new generator; nothing of its body runs yet.
StartEpoch(loaders) ==
    /\ active = 0
    /\ Len(gens) < MaxEpochs
    /\ \E l \in loaders :
          /\ Made(l)
          /\ gens' = Append(gens, Epoch(l))
    /\ pulled' = Append(pulled, 0)
    /\ UNCHANGED <<instances, base, other, sampler, bpe, mx, active, delivered, declared,
                   restarts>>

EpochDone(e) == gens[e].st = "done"

\* The generator has ended: it returned, or an exception left it.
EpochOver(e) == gens[e].st \in {"done", "raised"}

\* Whether advancing ep may run the first lines of BatchSizeDataLoader.__iter__.
MayShuffle(ep) ==
    /\ base.made /\ base.shuffle
    /\ \/ ep.g.kind = "bs" /\ ep.g.st = "new"
       \/ ep.g.kind = "bpe" /\ bpe.iter.st = "new"
       \/ ep.loader = "max" /\ ep.st = "new"

\* The orders random.shuffle may produce while ep is advanced once.
Orders(ep) == IF MayShuffle(ep) THEN Shuffles(instances) ELSE {instances}

\* next(gens[e]), or the next round of the loop of a next(gens[e]) that has not
\* returned yet.
Advance(e) ==
    /\ active \in {0, e}
    /\ ~EpochOver(e)
    /\ \E perm \in Orders(gens[e]) :
          \E r \in {Epoch_next(gens[e], perm)} :
              /\ gens' = [gens EXCEPT ![e] = r.g]
              /\ bpe' = [bpe EXCEPT !.iter = r.cur]
              /\ instances' = r.inst
              /\ active' = IF r.res = "restart" THEN e ELSE 0
              /\ delivered' = IF r.res = "yield"
                               THEN Append(delivered, [epoch |-> e, batch |-> r.val])
                               ELSE delivered
              /\ pulled' = [pulled EXCEPT ![e] = @ + r.n]
              /\ restarts' = IF r.res = "restart" /\ Len(restarts) < MaxRestarts
                              THEN Append(restarts, Len(delivered))
                              ELSE restarts
    /\ UNCHANGED <<base, other, sampler, mx, declared>>

\* The caller advances the generator it obtained last (it has dropped the others).
Pull == gens # <<>> /\ Advance(Len(gens))

\* The caller begins an epoch only when the one before it has ended.
StartNext(loaders) == (gens # <<>> => EpochOver(Len(gens))) /\ StartEpoch(loaders)

\* The caller advances any of the generators it obtained.
PullAny == \E e \in 1..Len(gens) : Advance(e)

\* loader.num_batches_per_epoch()
NumBatchesPerEpoch(loaders) ==
    /\ active = 0
    /\ \E l \in loaders :
          /\ Made(l)
          /\ declared' =
                [who |-> l,
                 ret |-> CASE l = "bs"    -> BatchSize_num_batches_per_epoch
                           [] l = "bpe"   -> BatchesPerEpoch_num_batches_per_epoch
                           [] l = "max"   -> MaxBatches_num_batches_per_epoch
                           [] l = "other" -> Other_num_batches_per_epoch
                           [] l = "sampler" -> Sampler_num_batches_per_epoch,
                 mid |-> \E e \in 1..Len(gens) : gens[e].st = "run",
                 after |-> Len(restarts)]
          /\ bpe' = IF l = "bpe" THEN BatchesPerEpoch_after_num_batches_per_epoch ELSE bpe
    /\ UNCHANGED <<instances, base, other, sampler, mx, gens, active, delivered, pulled,
                   restarts>>

-----------------------------------------------------------------------------
(* Specifications. *)

BatchSizes == 0..MaxBatchSize

Targets == 0..MaxTarget

Caps == 0..MaxCap

\* Every loader, alone and composed.
Next ==
    \/ ConstructBatchSize(BatchSizes, BOOLEAN)
    \/ ConstructOther
    \/ ConstructBatchesPerEpoch(Targets)
    \/ ConstructMaxBatches(Caps, {"bs", "other", "bpe"})
    \/ StartEpoch(Loaders)
    \/ Pull
    \/ NumBatchesPerEpoch(Loaders)

Spec == Init /\ [][Next]_vars

\* A BatchSizeDataLoader alone.
NextChunk ==
    \/ ConstructBatchSize(BatchSizes, BOOLEAN)
    \/ StartEpoch({"bs"})
    \/ Pull
    \/ NumBatchesPerEpoch({"bs"})

SpecChunk == Init /\ [][NextChunk]_vars

\* A BatchSizeDataLoader that does not shuffle, alone, over longer lists.
NextPlainChunk ==
    \/ ConstructBatchSize(BatchSizes, {FALSE})
    \/ StartEpoch({"bs"})
    \/ Pull
    \/ NumBatchesPerEpoch({"bs"})

SpecPlainChunk == InitPlain /\ [][NextPlainChunk]_vars

\* A BatchesPerEpochDataLoader around a BatchSizeDataLoader.
NextExact ==
    \/ ConstructBatchSize(BatchSizes, {FALSE})
    \/ ConstructBatchesPerEpoch(Targets)
    \/ StartEpoch({"bpe"})
    \/ Pull
    \/ NumBatchesPerEpoch({"bpe"})

SpecExact == InitPlain /\ [][NextExact]_vars

\* The same loaders, with a caller that keeps advancing the generator it holds.
NextDriven ==
    \/ ConstructBatchSize(BatchSizes, {FALSE})
    \/ ConstructBatchesPerEpoch(Targets)
    \/ StartEpoch({"bpe"})
    \/ Pull

FairExact == InitPlain /\ [][NextDriven]_vars /\ WF_vars(Pull)

\* The same loaders, the caller advancing its generators in any interleaving.
NextInterleaved ==
    \/ ConstructBatchSize(BatchSizes, {FALSE})
    \/ ConstructBatchesPerEpoch(Targets)
    \/ StartEpoch({"bpe"})
    \/ PullAny

SpecInterleaved == InitPlain /\ [][NextInterleaved]_vars

\* BatchesPerEpochDataLoader(inner, 7) around a BatchSizeDataLoader that declares
\* 3 batches per epoch and does not shuffle.
InitSeven ==
    /\ instances \in InstanceLists(4 * MaxBatchSize)
    /\ base \in {[made |-> TRUE, batch_size |-> b, drop_last |-> d, shuffle |-> FALSE] :
                    b \in 1..MaxBatchSize, d \in BOOLEAN}
    /\ BatchSize_num_batches_per_epoch = Returned(3)
    /\ other = NoOther
    /\ sampler = NoSampler
    /\ bpe = [made |-> TRUE, batches_per_epoch |-> 7, iter |-> Gen("bs")]
    /\ mx = NoMax
    /\ gens = <<>>
    /\ active = 0
    /\ delivered = <<>>
    /\ pulled = <<>>
    /\ declared = NoCall
    /\ restarts = <<>>

NextSeven ==
    \/ StartEpoch({"bpe"})
    \/ Pull

SpecSeven == InitSeven /\ [][NextSeven]_vars

\* A MaxBatchesDataLoader around a BatchSizeDataLoader or a loader of another class.
NextCapped ==
    \/ ConstructBatchSize(BatchSizes, BOOLEAN)
    \/ ConstructOther
    \/ ConstructMaxBatches(Caps, {"bs", "other"})
    \/ StartEpoch({"max"})
    \/ Pull
    \/ NumBatchesPerEpoch({"max"})

SpecCapped == Init /\ [][NextCapped]_vars

\* A SamplerDataLoader alone, each epoch driven to its end.
NextSampler ==
    \/ ConstructSampler
    \/ StartNext({"sampler"})
    \/ Pull
    \/ NumBatchesPerEpoch({"sampler"})

SpecSampler == Init /\ [][NextSampler]_vars

\* A BatchSizeDataLoader, shuffling or not, iterated directly and through the
\* wrappers around it, in any chain.
NextChain ==
    \/ ConstructBatchSize(BatchSizes, BOOLEAN)
    \/ ConstructBatchesPerEpoch(Targets)
    \/ ConstructMaxBatches(Caps, {"bs", "bpe"})
    \/ StartEpoch({"bs", "bpe", "max"})
    \/ Pull
    \/ NumBatchesPerEpoch({"bs", "bpe", "max"})

SpecChain == Init /\ [][NextChain]_vars

\* A MaxBatchesDataLoader around a BatchesPerEpochDataLoader around a
\* BatchSizeDataLoader that does not shuffle, each epoch driven to its end.
NextComposed ==
    \/ ConstructBatchSize(BatchSizes, {FALSE})
    \/ ConstructBatchesPerEpoch(Targets)
    \/ ConstructMaxBatches(Caps, {"bpe"})
    \/ StartNext({"max"})
    \/ Pull

SpecComposed == InitPlain /\ [][NextComposed]_vars

-----------------------------------------------------------------------------
(* What the caller observed, and what one epoch of the BatchSizeDataLoader   *)
(* is.                                                                       *)

\* The batches delivered by the caller's generator e, in order.
RECURSIVE OutFrom(_, _)
OutFrom(e, j) ==
    IF j > Len(delivered) THEN <<>>
    ELSE IF delivered[j].epoch = e
         THEN <<delivered[j].batch>> \o OutFrom(e, j + 1)
         ELSE OutFrom(e, j + 1)

Out(e) == OutFrom(e, 1)

Count(e) == Len(Out(e))

\* The examples of a sequence of batches, concatenated.
RECURSIVE Examples(_)
Examples(bs) == IF bs = <<>> THEN <<>> ELSE Head(bs).examples \o Examples(Tail(bs))

\* How often x occurs in the sequence s.
Occurrences(s, x) == Cardinality({i \in 1..Len(s) : s[i] = x})

\* Every batch a running generator of BatchSizeDataLoader.__iter__ still yields.
RECURSIVE BatchSize_rest(_, _)
BatchSize_rest(g, inst) ==
    LET r == BatchSize_loop(g, inst)
    IN  IF r.res = "yield" THEN <<r.val>> \o BatchSize_rest(r.g, inst) ELSE <<>>

\* One whole epoch of the BatchSizeDataLoader over the list in the order list.
BatchSize_epoch(list) ==
    BatchSize_rest([Gen("bs") EXCEPT !.st = "run", !.items = list], list)

IsPrefix(s, t) == Len(s) <= Len(t) /\ s = SubSeq(t, 1, Len(s))

-----------------------------------------------------------------------------
(* BatchesPerEpochDataLoader: the claims. *)

\* The batches of one epoch of the inner loader, when it does not shuffle.
InnerEpoch == BatchSize_epoch(instances)

\* The caller's generator e exists and is one of the BatchesPerEpochDataLoader
\* with a positive target over an inner loader whose epoch is not empty.
ExactEpoch(e) ==
    /\ e <= Len(gens)
    /\ gens[e].loader = "bpe"
    /\ bpe.batches_per_epoch > 0
    /\ Len(InnerEpoch) >= 1

\* C1: for every target T > 0 and every inner loader whose epoch is not empty,
\* a generator of the exact-count wrapper that the caller keeps advancing ends,
\* having delivered exactly T batches, wherever the cursor stood when it began
\* (a generator the caller drops for a new one is not driven to its end).
C1_ExactCount ==
    \A e \in 1..MaxEpochs :
        ExactEpoch(e) ~>
            \/ e <= Len(gens) /\ EpochDone(e) /\ Count(e) = bpe.batches_per_epoch
            \/ Len(gens) > e

\* C1 witness: a second generator that began with the cursor inside an inner
\* epoch, went through a restart of the cursor, and ended with T batches.
C1_Witness ==
    /\ ExactEpoch(2)
    /\ EpochDone(2)
    /\ Count(2) = bpe.batches_per_epoch
    /\ Count(1) % Len(InnerEpoch) # 0
    /\ (Count(1) % Len(InnerEpoch)) + Count(2) > Len(InnerEpoch)

\* C2: over a non-shuffling inner loader with n >= 1 batches per epoch, the j-th
\* batch the wrapper ever delivers (over all its generators, ended or dropped)
\* is inner batch ((j-1) mod n) + 1.
C2_CyclicStream ==
    (bpe.made /\ ~base.shuffle /\ Len(InnerEpoch) >= 1) =>
        \A j \in 1..Len(delivered) :
            delivered[j].batch = InnerEpoch[((j - 1) % Len(InnerEpoch)) + 1]

\* C2 witness: a first generator dropped after fewer than T batches, in the
\* middle of an inner epoch, and a second one that delivered past the end of
\* that inner epoch.
C2_Witness ==
    /\ ExactEpoch(2)
    /\ ~EpochDone(1)
    /\ Count(1) >= 1
    /\ Count(1) < bpe.batches_per_epoch
    /\ Count(1) % Len(InnerEpoch) # 0
    /\ Count(1) + Count(2) > Len(InnerEpoch)

\* The number of batches the cursor has produced from the inner epoch it is in.
CursorOffset == ceil(bpe.iter.pos, base.batch_size)

\* The first j batches of the cyclic repetition of the inner epoch.
Cyclic(j) == [k \in 1..j |-> InnerEpoch[((k - 1) % Len(InnerEpoch)) + 1]]

\* C3 as stated: with 3 inner batches per epoch and T = 7, when the first call
\* has delivered its 7 batches the cursor stands 4 batches into an inner epoch
\* (the call ended with batches 1,2,3,4 of one new inner epoch).
C3_AsStated ==
    (Len(gens) >= 1 /\ Count(1) = 7) => CursorOffset = 4

\* C3 amended: with 3 inner batches per epoch and T = 7, the first call delivers
\* inner batches 1,2,3, 1,2,3, 1 (the cursor restarts twice), the cursor is left
\* 1 batch into the third inner epoch, and the next call begins with inner
\* batch 2.
C3_SevenOfThree ==
    /\ Len(InnerEpoch) = 3
    /\ Len(gens) >= 1 =>
          /\ Count(1) <= 7
          /\ Out(1) = Cyclic(Count(1))
          /\ (Count(1) = 7 /\ Len(delivered) = 7) => CursorOffset = 1
    /\ (Len(gens) >= 2 /\ Count(1) = 7 /\ Count(2) >= 1) => Out(2)[1] = InnerEpoch[2]

\* C3 witness: the first call ended after 7 batches and the second call has
\* delivered its first batch.
C3_Witness ==
    /\ Len(gens) = 2
    /\ EpochDone(1)
    /\ Count(1) = 7
    /\ Count(2) = 1

-----------------------------------------------------------------------------
(* MaxBatchesDataLoader: the claims. *)

\* The caller's generator e is one of the MaxBatchesDataLoader.
CappedEpoch(e) == e <= Len(gens) /\ gens[e].loader = "max"

\* The whole inner epoch that the generator e (entered) draws from.
CappedInner(e) ==
    IF mx.inner = "other"
    THEN other.batches
    ELSE BatchSize_epoch(IF base.shuffle THEN gens[e].g.items ELSE instances)

\* C4 as stated: for every cap C > 0, when a generator of the capped wrapper
\* has signalled its end, it has pulled from the inner sequence exactly as many
\* batches as it delivered.
C4_NoOverConsumption ==
    \A e \in 1..Len(gens) :
        (CappedEpoch(e) /\ mx.max_batches_per_epoch > 0 /\ EpochDone(e)) =>
            pulled[e] = Count(e)

\* C5: every generator of the capped wrapper delivers a prefix of one fresh
\* inner epoch, in the inner order and content, never more than min(C, n)
\* batches and exactly min(C, n) when it ends, whatever happened to earlier
\* generators.
C5_FirstBatches ==
    \A e \in 1..Len(gens) :
        (CappedEpoch(e) /\ gens[e].st # "new") =>
            /\ IsPrefix(Out(e), CappedInner(e))
            /\ Count(e) <= Min(mx.max_batches_per_epoch, Len(CappedInner(e)))
            /\ EpochDone(e) =>
                  Count(e) = Min(mx.max_batches_per_epoch, Len(CappedInner(e)))

\* C5 witness: a first generator left partly consumed, and a second one, over
\* a shuffled inner epoch longer than the cap, that ended after C batches.
C5_Witness ==
    /\ CappedEpoch(2)
    /\ ~EpochDone(1) /\ Count(1) >= 1
    /\ EpochDone(2)
    /\ mx.inner = "bs" /\ base.shuffle
    /\ gens[2].g.items # instances
    /\ Len(CappedInner(2)) > mx.max_batches_per_epoch
    /\ Count(2) = mx.max_batches_per_epoch

\* C6: num_batches_per_epoch() of the capped wrapper returns None when the
\* inner loader's count is None, whatever C is, and min(C, inner count)
\* otherwise; over a BatchSizeDataLoader (batch size >= 1) that is the number of
\* batches a generator of the wrapper delivers before it ends.
C6_DeclaredCount ==
    /\ (declared.who = "max" /\ mx.inner = "other") => declared.ret = ReturnedNone
    /\ (declared.who = "max" /\ mx.inner = "bs" /\ base.batch_size >= 1) =>
          /\ declared.ret = Returned(Min(mx.max_batches_per_epoch, Len(InnerEpoch)))
          /\ \A e \in 1..Len(gens) :
                (CappedEpoch(e) /\ EpochDone(e)) => declared.ret = Returned(Count(e))

\* C6 witness: the count was asked of a wrapper whose inner BatchSizeDataLoader
\* has fewer batches than the cap, after a generator of the wrapper ended.
C6_Witness ==
    /\ declared.who = "max" /\ mx.inner = "bs" /\ base.batch_size >= 1
    /\ CappedEpoch(1) /\ EpochDone(1)
    /\ Count(1) >= 1
    /\ Count(1) < mx.max_batches_per_epoch

-----------------------------------------------------------------------------
(* Construction: the claim. *)

\* C7 as stated: no BatchSizeDataLoader with batch size <= 0, no
\* BatchesPerEpochDataLoader with target <= 0 and no MaxBatchesDataLoader with
\* cap <= 0 exists: their construction raised InvalidConfig.
C7_Validated ==
    /\ base.made => base.batch_size > 0
    /\ bpe.made => bpe.batches_per_epoch > 0
    /\ mx.made => mx.max_batches_per_epoch > 0

\* C7, the part of it about iteration: no generator of a loader with a
\* non-positive parameter is ever advanced.
C7_NeverIterated ==
    \A e \in 1..Len(gens) :
        gens[e].st # "new" =>
            CASE gens[e].loader = "bs"  -> base.batch_size > 0
              [] gens[e].loader = "bpe" -> bpe.batches_per_epoch > 0
              [] gens[e].loader = "max" -> mx.max_batches_per_epoch > 0
              [] OTHER -> TRUE

-----------------------------------------------------------------------------
(* BatchSizeDataLoader: the claims. *)

\* The caller's generator e is one of the BatchSizeDataLoader.
ChunkEpoch(e) == e <= Len(gens) /\ gens[e].loader = "bs"

\* ceil(n / d) and floor(n / d), d >= 1, by their defining inequalities.
CeilOf(n, d) == CHOOSE k \in 0..n : k * d >= n /\ (k = 0 \/ (k - 1) * d < n)

FloorOf(n, d) == CHOOSE k \in 0..n : k * d <= n /\ (k + 1) * d > n

\* C8: without drop_last and with batch size >= 1, num_batches_per_epoch() is
\* ceil(|instances| / batch size), and a generator that ended delivered that
\* many batches.
C8_CeilCount ==
    (base.made /\ ~base.drop_last /\ base.batch_size >= 1) =>
        /\ BatchSize_num_batches_per_epoch =
              Returned(CeilOf(Len(instances), base.batch_size))
        /\ declared.who = "bs" => declared.ret = BatchSize_num_batches_per_epoch
        /\ \A e \in 1..Len(gens) :
              (ChunkEpoch(e) /\ EpochDone(e)) =>
                  Returned(Count(e)) = BatchSize_num_batches_per_epoch

\* C8 witness: a generator over fewer instances than the batch size ended,
\* after one batch, and the count was asked.
C8_Witness ==
    /\ base.made /\ ~base.drop_last
    /\ instances # <<>>
    /\ Len(instances) < base.batch_size
    /\ declared.who = "bs"
    /\ ChunkEpoch(1) /\ EpochDone(1)
    /\ Count(1) = 1

\* C9: with drop_last and batch size >= 1, every batch delivered holds exactly
\* batch size examples, a generator that ended delivered
\* floor(|instances| / batch size) batches, and num_batches_per_epoch() is that
\* number.
C9_FloorCount ==
    (base.made /\ base.drop_last /\ base.batch_size >= 1) =>
        /\ BatchSize_num_batches_per_epoch =
              Returned(FloorOf(Len(instances), base.batch_size))
        /\ declared.who = "bs" => declared.ret = BatchSize_num_batches_per_epoch
        /\ \A j \in 1..Len(delivered) :
              Len(delivered[j].batch.examples) = base.batch_size
        /\ \A e \in 1..Len(gens) :
              (ChunkEpoch(e) /\ EpochDone(e)) =>
                  Count(e) = FloorOf(Len(instances), base.batch_size)

\* C9 witness: a generator ended after whole batches only, a shorter last group
\* having been left out.
C9_Witness ==
    /\ base.made /\ base.drop_last /\ base.batch_size >= 1
    /\ Len(instances) % base.batch_size # 0
    /\ declared.who = "bs"
    /\ ChunkEpoch(1) /\ EpochDone(1)
    /\ Count(1) * base.batch_size < Len(instances)

\* The examples the generator e delivered are those of the instance list, each
\* as often as there.
SameExamples(e) ==
    \A x \in Range(instances) \cup Range(Examples(Out(e))) :
        Occurrences(Examples(Out(e)), x) = Occurrences(instances, x)

\* C10 as stated: with shuffle (batch size >= 1, drop_last set or not), the
\* examples of the batches of every epoch that ended are exactly the instance
\* set, none lost and none duplicated.
C10_AsStated ==
    \A e \in 1..Len(gens) :
        (ChunkEpoch(e) /\ base.shuffle /\ base.batch_size >= 1 /\ EpochDone(e)) =>
            SameExamples(e)

\* C10 amended: with shuffle and batch size >= 1, no epoch, first or repeated,
\* delivers an example more often than the instance set holds it; an epoch that
\* ended delivered exactly the instance set when drop_last is off, and all but
\* the |instances| mod batch size examples of the dropped last group when
\* drop_last is on.
C10_ShuffleKeepsExamples ==
    \A e \in 1..Len(gens) :
        (ChunkEpoch(e) /\ base.shuffle /\ base.batch_size >= 1) =>
            /\ \A x \in Range(instances) \cup Range(Examples(Out(e))) :
                  Occurrences(Examples(Out(e)), x) <= Occurrences(instances, x)
            /\ (EpochDone(e) /\ ~base.drop_last) => SameExamples(e)
            /\ (EpochDone(e) /\ base.drop_last) =>
                  Len(Examples(Out(e))) =
                      Len(instances) - (Len(instances) % base.batch_size)

\* C10 witness: a repeated epoch, shuffled into another order than the instance
\* list's, that ended having delivered every instance.
C10_Witness ==
    /\ ChunkEpoch(2) /\ base.shuffle /\ ~base.drop_last /\ base.batch_size >= 1
    /\ EpochDone(1) /\ EpochDone(2)
    /\ Len(instances) >= 2
    /\ Examples(Out(2)) # instances
    /\ Examples(Out(2)) # Examples(Out(1))

-----------------------------------------------------------------------------
(* SamplerDataLoader: the claims. *)

\* The caller's generator e exists and is one of the SamplerDataLoader.
SamplerEpoch(e) == e <= Len(gens) /\ gens[e].loader = "sampler"

\* Every index of the sampler's k-th group is one of 0..len(instances)-1.
ValidGroup(k) ==
    \A j \in 1..Len(sampler.groups[k]) :
        0 <= sampler.groups[k][j] /\ sampler.groups[k][j] < Len(instances)

\* The batch of the instances at the indices of the k-th group, in the group's order.
GroupBatch(k) ==
    allennlp_collate([j \in 1..Len(sampler.groups[k]) |->
                         instances[sampler.groups[k][j] + 1]])

\* C11: an epoch of the SamplerDataLoader has one batch per index group the
\* sampler yields, in the sampler's order; batch k is the collation of the
\* instances at the indices of group k, in the order given, duplicates kept,
\* an empty group giving a batch too; and when the sampler reports as many
\* batches as it yields groups, num_batches_per_epoch() is the number of
\* batches of a whole epoch.
C11_OnePerGroup ==
    \A e \in 1..Len(gens) :
        SamplerEpoch(e) =>
            /\ Count(e) <= Len(sampler.groups)
            /\ Count(e) = IF gens[e].st = "raised" THEN gens[e].g.pos - 1 ELSE gens[e].g.pos
            /\ \A k \in 1..Count(e) : ValidGroup(k) => Out(e)[k] = GroupBatch(k)
            /\ EpochDone(e) => Count(e) = Len(sampler.groups)
            /\ (\A k \in 1..Len(sampler.groups) : ValidGroup(k)) => gens[e].st # "raised"
            /\ (EpochDone(e) /\ declared.who = "sampler"
                    /\ sampler.num = Len(sampler.groups)) =>
                  declared.ret = Returned(Count(e))

\* A whole epoch of two batches, one of them of an empty group and one of two
\* instances named last first, the count having been asked for.
C11_Witness ==
    \E e \in 1..Len(gens) :
        /\ SamplerEpoch(e) /\ EpochDone(e) /\ Count(e) = 2
        /\ declared.who = "sampler" /\ declared.ret = Returned(2)
        /\ \E k \in 1..2 : sampler.groups[k] = <<>>
        /\ \E k \in 1..2 : sampler.groups[k] = <<1, 0>>

-----------------------------------------------------------------------------
(* BatchesPerEpochDataLoader: the count it declares, and its restarts. *)

\* C12: num_batches_per_epoch() of the BatchesPerEpochDataLoader returns
\* batches_per_epoch whatever the inner loader's count is and in whatever state
\* it is called (before any epoch, within one, after restarts); the call takes
\* no batch from the inner loader and leaves the cursor self.iter, the
\* generators and everything delivered as they were.
C12_DeclaredTarget ==
    [][(declared' # declared /\ declared'.who = "bpe") =>
          /\ declared'.ret = Returned(bpe.batches_per_epoch)
          /\ bpe' = bpe
          /\ gens' = gens
          /\ pulled' = pulled
          /\ delivered' = delivered
          /\ restarts' = restarts
          /\ instances' = instances]_vars

\* The count was asked for while a generator was suspended, after a restart of
\* the cursor, of a wrapper whose inner loader has another number of batches
\* per epoch.
C12_Witness ==
    /\ declared.who = "bpe"
    /\ declared.ret = Returned(bpe.batches_per_epoch)
    /\ bpe.batches_per_epoch # Len(InnerEpoch)
    /\ declared.mid
    /\ declared.after >= 1

\* The caller's generator e exists and is one of the BatchesPerEpochDataLoader.
WrapperEpoch(e) == e <= Len(gens) /\ gens[e].loader = "bpe"

\* The inner loader has no batch in any epoch, and the wrapper asks for some.
EmptyInner == bpe.made /\ bpe.batches_per_epoch > 0 /\ InnerEpoch = <<>>

\* C13: over an inner loader whose every epoch is empty, with
\* batches_per_epoch > 0, a generator of the BatchesPerEpochDataLoader never
\* yields a batch, never ends and raises nothing: once advanced, its next()
\* call never returns; every round of its loop restarts the inner epoch, and
\* another round is always possible.
C13_EmptyNeverEnds ==
    \A e \in 1..Len(gens) :
        (WrapperEpoch(e) /\ EmptyInner) =>
            /\ Count(e) = 0
            /\ gens[e].st \in {"new", "loop"}
            /\ gens[e].st = "loop" =>
                  /\ active = e
                  /\ restarts # <<>>
                  /\ \A k \in 1..Len(restarts) : restarts[k] = 0
                  /\ ENABLED Advance(e)

\* A generator over a non-empty instance list of which drop_last leaves nothing,
\* in its loop after as many restarts as the log holds.
C13_Witness ==
    /\ EmptyInner /\ instances # <<>> /\ base.batch_size > 0
    /\ WrapperEpoch(1) /\ gens[1].st = "loop"
    /\ Len(restarts) = MaxRestarts

\* Every epoch of the inner loader has batches, but fewer than batches_per_epoch.
SubTargetInner ==
    bpe.made /\ Len(InnerEpoch) >= 1 /\ Len(InnerEpoch) < bpe.batches_per_epoch

\* C14 as stated: over an inner loader whose every epoch has at least one batch
\* but fewer than batches_per_epoch, a generator of the wrapper never ends.
C14_AsStated ==
    \A e \in 1..Len(gens) :
        (WrapperEpoch(e) /\ SubTargetInner) => ~EpochDone(e)

\* C14 amended: over an inner loader whose every epoch has at least one batch
\* but fewer than batches_per_epoch, a generator of the wrapper that the caller
\* keeps advancing restarts the inner epoch when the cursor is exhausted, at
\* least once, and ends having delivered exactly batches_per_epoch batches.
C14_SubTargetCompletes ==
    \A e \in 1..MaxEpochs :
        (e <= Len(gens) /\ WrapperEpoch(e) /\ SubTargetInner) ~>
            \/ /\ e <= Len(gens) /\ EpochDone(e)
               /\ Count(e) = bpe.batches_per_epoch
               /\ restarts # <<>>
            \/ Len(gens) > e

\* A first generator that ended with batches_per_epoch batches of an inner
\* loader with fewer per epoch, the cursor restarted on the way.
C14_Witness ==
    /\ WrapperEpoch(1) /\ SubTargetInner
    /\ EpochDone(1)
    /\ Count(1) = bpe.batches_per_epoch
    /\ restarts # <<>> /\ restarts[1] < bpe.batches_per_epoch

\* next(self.iter) would raise StopIteration: the cursor has no batch left in
\* the inner epoch it is in.
CursorExhausted == BatchSize_next(bpe.iter, instances).res # "yield"

\* The restarts logged so far came one after each whole inner epoch: restart k
\* was made when k times the inner epoch had been delivered, and no batch of a
\* further inner epoch is delivered without a restart.  Before the wrapper is
\* constructed there is no cursor and no restart.
C15_Log ==
    IF bpe.made
    THEN \E n \in {Len(InnerEpoch)} :
            /\ bpe.iter.kind = "bs"
            /\ \A k \in 1..Len(restarts) : restarts[k] = k * n
            /\ Len(restarts) < MaxRestarts => Len(delivered) <= (Len(restarts) + 1) * n
    ELSE bpe.iter = NoGen /\ restarts = <<>>

\* One step of the program makes a restart, once, exactly when it is a next()
\* that needs a batch and finds the cursor exhausted; the restart gives the
\* wrapper a new iterator of the inner loader.  No other step, iter(loader)
\* among them, touches the cursor's epoch.
C15_Step ==
    LET e    == Len(gens)
        pull == e >= 1 /\ Len(gens') = e /\ declared' = declared
    IN  /\ Len(gens') > Len(gens) => bpe' = bpe /\ restarts' = restarts
        /\ Len(restarts) < MaxRestarts =>
              IF pull /\ gens'[e].st # "done" /\ CursorExhausted
              THEN /\ restarts' = Append(restarts, Len(delivered))
                   /\ delivered' = delivered
                   /\ bpe'.iter = Gen("bs")
              ELSE restarts' = restarts

\* C15: the BatchesPerEpochDataLoader asks its inner loader for an iterator once
\* when it is constructed and afterwards once each time a next() finds the
\* cursor exhausted, never because the caller began a new generator; between
\* two restarts every batch of the inner epoch is delivered.
C15_RestartDiscipline == []C15_Log /\ [][C15_Step]_vars

\* A second generator that began inside an inner epoch of several batches,
\* delivered the rest of it and went on after the one restart.
C15_Witness ==
    /\ WrapperEpoch(2) /\ Len(InnerEpoch) >= 2
    /\ Count(1) % Len(InnerEpoch) # 0
    /\ restarts = <<Len(InnerEpoch)>>
    /\ Len(delivered) > Len(InnerEpoch)

-----------------------------------------------------------------------------
(* BatchSizeDataLoader without shuffle. *)

\* The caller's generator e is one of a BatchSizeDataLoader that does not shuffle
\* and has a batch size of at least 1.
PlainEpoch(e) == ChunkEpoch(e) /\ ~base.shuffle /\ base.batch_size >= 1

\* C16: without shuffle the batches of an epoch are consecutive groups of the
\* instance list in its order; the examples of a whole epoch, concatenated, are
\* the instance list (drop_last off) or its first floor(N / batch_size) *
\* batch_size elements (drop_last on); no group is longer than batch_size or
\* empty, and only the last group of the list may be shorter; every epoch of
\* the loader yields the same batches.
C16_ContiguousGroups ==
    \A e \in 1..Len(gens) :
        PlainEpoch(e) =>
            /\ IsPrefix(Examples(Out(e)), instances)
            /\ \A k \in 1..Count(e) :
                  /\ Len(Out(e)[k].examples) >= 1
                  /\ Len(Out(e)[k].examples) <= base.batch_size
                  /\ Len(Out(e)[k].examples) < base.batch_size =>
                        k = Count(e) /\ Examples(Out(e)) = instances
            /\ (EpochDone(e) /\ ~base.drop_last) => Examples(Out(e)) = instances
            /\ (EpochDone(e) /\ base.drop_last) =>
                  Examples(Out(e)) =
                      SubSeq(instances, 1,
                             (Len(instances) \div base.batch_size) * base.batch_size)
            /\ \A f \in 1..Len(gens) :
                  /\ IsPrefix(Out(e), Out(f)) \/ IsPrefix(Out(f), Out(e))
                  /\ (EpochDone(e) /\ EpochDone(f)) => Out(e) = Out(f)

\* Two whole epochs over three instances in batches of two, the last group short.
C16_Witness ==
    /\ PlainEpoch(1) /\ PlainEpoch(2) /\ ~base.drop_last
    /\ EpochDone(1) /\ EpochDone(2)
    /\ Len(instances) = 3 /\ base.batch_size = 2
    /\ Count(2) = 2

-----------------------------------------------------------------------------
(* SamplerDataLoader: indices that are not positions of the instance list. *)

\* The index i is not one a list of n elements can be subscripted with.
BeyondList(i, n) == i >= n \/ i < -n

\* The sampler's k-th group holds an index beyond the instance list.
FailingGroup(k) ==
    \E j \in 1..Len(sampler.groups[k]) :
        BeyondList(sampler.groups[k][j], Len(instances))

\* The batch of the k-th group, an index i < 0 naming the instance at position
\* len(instances) + i.
WrappedBatch(k) ==
    allennlp_collate(
        [j \in 1..Len(sampler.groups[k]) |->
            LET i == sampler.groups[k][j]
            IN  instances[IF i >= 0 THEN i + 1 ELSE Len(instances) + i + 1]])

\* C17 as stated: when the generator reaches a group with an index outside
\* 0..len(instances)-1, a negative index included, it raises there and yields
\* no batch for that group.
C17_AsStated ==
    \A e \in 1..Len(gens) :
        SamplerEpoch(e) =>
            \A k \in 1..gens[e].g.pos :
                ~ValidGroup(k) =>
                    /\ gens[e].st = "raised"
                    /\ k = gens[e].g.pos
                    /\ Count(e) = k - 1

\* C17 amended: when the generator reaches a group with an index i >=
\* len(instances) or i < -len(instances), it raises there: no batch is yielded
\* for that group nor after it, and the batches of the groups before it were
\* delivered unchanged.  It raises for no other group: an index i with
\* -len(instances) <= i <= -1 names the instance at position
\* len(instances) + i, and the group's batch is yielded with it.
C17_IndexFailure ==
    \A e \in 1..Len(gens) :
        SamplerEpoch(e) =>
            /\ \A k \in 1..gens[e].g.pos :
                  IF FailingGroup(k)
                  THEN /\ gens[e].st = "raised"
                       /\ k = gens[e].g.pos
                       /\ Count(e) = k - 1
                  ELSE /\ k <= Count(e)
                       /\ Out(e)[k] = WrappedBatch(k)
            /\ gens[e].st = "raised" => FailingGroup(gens[e].g.pos)

\* A generator that yielded the batch of a group naming the last instance by -1
\* and raised at the next group, which names the position after the last.
C17_Witness ==
    \E e \in 1..Len(gens) :
        /\ SamplerEpoch(e) /\ gens[e].st = "raised"
        /\ Len(instances) >= 2
        /\ sampler.groups = << <<-1>>, <<Len(instances)>> >>
        /\ Out(e) = <<allennlp_collate(<<instances[Len(instances)]>>)>>

-----------------------------------------------------------------------------
(* The instance list. *)

\* C18: whatever the caller does with a BatchSizeDataLoader, shuffling or not,
\* and with the wrappers around it (asking for counts, iterating whole epochs
\* or parts of them), no step changes the shared instance list: its elements
\* and their order stay those it had at construction.
C18_InstancesKept == [][instances' = instances]_vars

\* A shuffling loader iterated through both wrappers, a generator dropped in
\* mid-epoch, batches delivered in another order than the list's, a count
\* asked for meanwhile; the list is as it was constructed.
C18_Witness ==
    /\ base.made /\ base.shuffle /\ bpe.made /\ mx.made /\ mx.inner = "bpe"
    /\ Len(gens) = 2 /\ gens[1].loader = "max" /\ gens[2].loader = "max"
    /\ gens[1].st = "run"
    /\ declared.who = "max" /\ declared.mid
    /\ Len(delivered) >= 2
    /\ Examples(<<delivered[1].batch, delivered[2].batch>>) = <<2, 1>>
    /\ instances = <<1, 2>>

-----------------------------------------------------------------------------
(* MaxBatchesDataLoader around BatchesPerEpochDataLoader. *)

\* C19: with a MaxBatchesDataLoader of cap C around a BatchesPerEpochDataLoader
\* of target T > C around a non-shuffling loader of n >= 1 batches per epoch,
\* each capped epoch driven to its end, the batches delivered over the
\* successive capped epochs are the inner epoch repeated cyclically: the j-th
\* is inner batch ((j-1) mod n) + 1, none skipped.
C19_NoBatchLost ==
    (/\ mx.made /\ mx.inner = "bpe"
     /\ bpe.batches_per_epoch > mx.max_batches_per_epoch
     /\ ~base.shuffle /\ Len(InnerEpoch) >= 1) =>
        \A j \in 1..Len(delivered) :
            delivered[j].batch = InnerEpoch[((j - 1) % Len(InnerEpoch)) + 1]

-----------------------------------------------------------------------------
(* Generators of one BatchesPerEpochDataLoader advanced in turns. *)

\* C20: generators of the same BatchesPerEpochDataLoader (target T > 0, inner
\* epoch of n >= 1 batches, no shuffle), alive together and advanced in any
\* interleaving, share the one cursor: each delivers at most T batches and
\* has delivered exactly T when it ends; every batch a generator took from
\* the cursor was delivered by that generator, so by exactly one of them; and
\* the batches delivered, in the order of delivery whichever generator
\* delivered them, are the cyclic inner stream, so that no generator gets an
\* inner epoch of its own.
C20_SharedCursor ==
    (bpe.made /\ bpe.batches_per_epoch > 0 /\ ~base.shuffle) =>
        \E inner \in {InnerEpoch} :
            Len(inner) >= 1 =>
                /\ \A e \in 1..Len(gens) :
                      \E count \in {Count(e)} :
                          /\ count <= bpe.batches_per_epoch
                          /\ EpochDone(e) => count = bpe.batches_per_epoch
                          /\ pulled[e] = count
                /\ \A j \in 1..Len(delivered) :
                      delivered[j].batch = inner[((j - 1) % Len(inner)) + 1]

\* Two generators advanced in turns over an inner epoch of three batches, the
\* cursor restarted once between them, both ended with their two batches.
C20_Witness ==
    /\ Len(gens) = 2 /\ EpochDone(1) /\ EpochDone(2)
    /\ Len(InnerEpoch) = 3
    /\ [j \in 1..Len(delivered) |-> delivered[j].epoch] = <<1, 2, 1, 2>>
    /\ restarts = <<3>>
====
